---- MODULE Spec2Model ----
(***************************************************************************)
(* Model of monitor.py (AI Site Monitor v2): the fetch / extract / analyze  *)
(* / aggregate pipeline run by main() on an asyncio event loop.             *)
(*                                                                          *)
(* Text is modelled as a sequence of one-character strings, so that         *)
(* str.lower(), the substring test `k in s` and slicing are computed, not   *)
(* assumed.  A URL is the record of the components urlparse() splits it     *)
(* into; UrlString gives back the text the keyword filter looks at.         *)
(***************************************************************************)
EXTENDS Integers, Sequences, FiniteSets, TLC

(***************************************************************************)
(* Configuration (monitor.py:37-44).  max_concurrent and batch_size are     *)
(* drawn from Configs when the run starts (variable `settings`); the other  *)
(* two are those of a small config.yml (the source's defaults are 8 and 2). *)
(***************************************************************************)
MAX_PAGES_PER_SITE == 2
RETRY_COUNT == 1

\* Bounds of the model.
MaxSites == 2
MaxAnchors == 3
MaxLinks == 3
MaxRetry == 2
MaxSegments == 3

SALE == <<"s","a","l","e">>

DEAL == <<"d","e","a","l">>

GIFT == <<"G","i","f","t">>

\* cfg["keywords"] (monitor.py:38), taken as written in config.json: two of
\* the default keywords and one written with a capital letter
KEYWORDS == {SALE, DEAL, GIFT}

(***************************************************************************)
(* Text helpers.                                                            *)
(***************************************************************************)
UPPER == <<"A","B","C","D","E","F","G","H","I","J","K","L","M",
           "N","O","P","Q","R","S","T","U","V","W","X","Y","Z">>

LOWER == <<"a","b","c","d","e","f","g","h","i","j","k","l","m",
           "n","o","p","q","r","s","t","u","v","w","x","y","z">>

LowerChar(c) ==
    IF \E i \in 1..26 : UPPER[i] = c
    THEN LOWER[CHOOSE i \in 1..26 : UPPER[i] = c]
    ELSE c

\* str.lower()
Lower(s) == [i \in 1..Len(s) |-> LowerChar(s[i])]

\* the substring test `k in s`
Contains(k, s) ==
    \E i \in 1..(Len(s) - Len(k) + 1) : SubSeq(s, i, i + Len(k) - 1) = k

\* any(k in s for k in KEYWORDS)
AnyKeywordIn(s) == \E k \in KEYWORDS : Contains(k, s)

(***************************************************************************)
(* URLs.                                                                    *)
(***************************************************************************)
Url(scheme, netloc, path) == [scheme |-> scheme, netloc |-> netloc, path |-> path]

UrlString(u) == u.scheme \o <<":", "/", "/">> \o u.netloc \o u.path

\* the value of the except branch, taken for every url
domain_of_unparsed(url) == <<>>

\* urlparse(url).netloc : the host part only, the scheme is dropped
domain_of(url) == url.netloc

\* An href attribute, by the form of its text:
\*   "abs"    http://host/path or https://host/path
\*   "path"   /path               (resolved against the homepage)
\*   "netrel" //host/path         (takes the homepage's scheme)
\*   "empty"  only whitespace     (strip() leaves "")
\*   "bad"    //[x                (urljoin raises ValueError: Invalid IPv6 URL)
Href(kind, scheme, netloc, path) ==
    [kind |-> kind, scheme |-> scheme, netloc |-> netloc, path |-> path]

\* urljoin(base_url, href) for an href that does not start with http(s)://
normalize_link(href, base_url) ==
    CASE href.kind = "path"   -> Url(base_url.scheme, base_url.netloc, href.path)
      [] href.kind = "netrel" -> Url(base_url.scheme, href.netloc, href.path)
      [] OTHER                -> Url(href.scheme, href.netloc, href.path)

(***************************************************************************)
(* Fetcher.  A response body is a record: `empty` says the text is "" (so   *)
(* `not html` holds), `anchors` are its <a href=...> elements in document   *)
(* order.  One GET attempt either raises (ok = FALSE) or yields a body.     *)
(***************************************************************************)
Body(empty, anchors) == [empty |-> empty, anchors |-> anchors]

EmptyBody == Body(TRUE, <<>>)

\* http_error: the response came with a 4xx/5xx status
Attempt(ok, body) == [ok |-> ok, body |-> body, http_error |-> FALSE]

\* the text of an error page: not empty, no links
ErrorPage == Body(FALSE, <<>>)

\* A GET answered with an error status: the session is created without
\* raise_for_status, so session.get and resp.text() raise nothing and the
\* attempt yields the text of the error page.
HttpErrorAttempt == [ok |-> TRUE, body |-> ErrorPage, http_error |-> TRUE]

FailedAttempt == Attempt(FALSE, EmptyBody)

\* What fetch_text returns, with the number of GETs issued and of sleeps taken.
FetchResult(none, body, gets, sleeps) ==
    [none |-> none, body |-> body, gets |-> gets, sleeps |-> sleeps]

RECURSIVE FetchLoopNoBackoffGuard(_, _, _, _, _)
FetchLoopNoBackoffGuard(outcomes, retry_count, attempt, gets, sleeps) ==
    IF attempt >= retry_count + 1
    THEN FetchResult(TRUE, EmptyBody, gets, sleeps)
    ELSE IF outcomes[attempt + 1].ok
         THEN FetchResult(FALSE, outcomes[attempt + 1].body, gets + 1, sleeps)
         ELSE FetchLoopNoBackoffGuard(outcomes, retry_count, attempt + 1,
                                      gets + 1, sleeps + 1)

\* for attempt in range(RETRY_COUNT + 1): try GET / except: sleep or return None
RECURSIVE FetchLoop(_, _, _, _, _)
FetchLoop(outcomes, retry_count, attempt, gets, sleeps) ==
    IF attempt >= retry_count + 1
    THEN FetchResult(TRUE, EmptyBody, gets, sleeps)
    ELSE IF outcomes[attempt + 1].ok
         THEN FetchResult(FALSE, outcomes[attempt + 1].body, gets + 1, sleeps)
         ELSE IF attempt < retry_count
              THEN FetchLoop(outcomes, retry_count, attempt + 1, gets + 1, sleeps + 1)
              ELSE FetchResult(TRUE, EmptyBody, gets + 1, sleeps)

fetch_text_sleeps_always(outcomes, retry_count) ==
    FetchLoopNoBackoffGuard(outcomes, retry_count, 0, 0, 0)

\* fetch_text, as a function of what each GET attempt does
fetch_text(outcomes, retry_count) == FetchLoop(outcomes, retry_count, 0, 0, 0)

\* `not html`
NotHtml(html) == html.none \/ html.body.empty

(***************************************************************************)
(* Link Extractor (everything of extract_candidate_links after the fetch).  *)
(***************************************************************************)
Anchor(href, text) == [href |-> href, text |-> text]

\* a membership test that never finds the link
RangeOfNothing(seq) == {}

Range(seq) == {seq[i] : i \in 1..Len(seq)}

Take(seq, n) == SubSeq(seq, 1, IF n < Len(seq) THEN n ELSE Len(seq))

\* The value of a call that may raise.
Returned(v) == [raised |-> FALSE, value |-> v]

Raised == [raised |-> TRUE, value |-> <<>>]

\* for a in soup.find_all("a", href=True): ...
RECURSIVE ExtractLoop(_, _, _, _, _)
ExtractLoop(anchors, i, candidates, site_url, max_links) ==
    IF i > Len(anchors)
    THEN Returned(candidates)
    ELSE LET a    == anchors[i]
             href == a.href
         IN  IF href.kind = "empty"
             THEN ExtractLoop(anchors, i + 1, candidates, site_url, max_links)
             ELSE IF href.kind = "bad"
             THEN Raised
             ELSE LET link == IF href.kind = "abs"
                              THEN Url(href.scheme, href.netloc, href.path)
                              ELSE normalize_link(href, site_url)
                  IN  IF domain_of(link) # domain_of(site_url)
                      THEN ExtractLoop(anchors, i + 1, candidates, site_url, max_links)
                      ELSE LET low         == Lower(UrlString(link))
                               text_anchor == Lower(a.text)
                               kept == IF (AnyKeywordIn(low) \/ AnyKeywordIn(text_anchor))
                                          /\ link \notin Range(candidates)
                                       THEN Append(candidates, link)
                                       ELSE candidates
                           IN  IF Len(kept) >= max_links
                               THEN Returned(kept)
                               ELSE ExtractLoop(anchors, i + 1, kept, site_url, max_links)

\* as extract_candidate_links, with the homepage appended before `if not html`
extract_homepage_before_check(html, site_url, max_links) ==
    IF NotHtml(html)
    THEN Returned(<<site_url>>)
    ELSE ExtractLoop(html.body.anchors, 1, <<site_url>>, site_url, max_links)

\* extract_candidate_links, given the homepage text fetch_text returned
extract_candidate_links(html, site_url, max_links) ==
    IF NotHtml(html)
    THEN Returned(<<>>)
    ELSE ExtractLoop(html.body.anchors, 1, <<site_url>>, site_url, max_links)

(***************************************************************************)
(* Analyzer.  The model's reply is a sequence of tokens: a character, or    *)
(* one "key": value member of a JSON object.  json.loads accepts a slice    *)
(* exactly when it is "{", members and blanks, "}".                         *)
(***************************************************************************)
JBool(b) == [type |-> "bool", b |-> b, s |-> <<>>]

JNull == [type |-> "null", b |-> FALSE, s |-> <<>>]

JStr(s) == [type |-> "str", b |-> FALSE, s |-> s]

\* a number, by its digits; b says it is not zero
JNum(digits, nonzero) == [type |-> "num", b |-> nonzero, s |-> digits]

Ch(c) == [tok |-> "ch", c |-> c, key |-> <<>>, val |-> JNull]

Member(key, val) == [tok |-> "member", c |-> "", key |-> key, val |-> val]

\* a text of plain characters
Str(chars) == [i \in 1..Len(chars) |-> Ch(chars[i])]

HAS_PROMOTION == <<"h","a","s","_","p","r","o","m","o","t","i","o","n">>

PROMOTION_SUMMARY ==
    <<"p","r","o","m","o","t","i","o","n","_","s","u","m","m","a","r","y">>

ERROR_AI == <<"E","R","R","O","R","_","A","I",":"," ">>

ValueText(v) ==
    CASE v.type = "bool" -> IF v.b THEN <<"t","r","u","e">> ELSE <<"f","a","l","s","e">>
      [] v.type = "null" -> <<"n","u","l","l">>
      [] v.type = "str"  -> <<"\"">> \o v.s \o <<"\"">>
      [] OTHER           -> v.s

TokenText(t) ==
    IF t.tok = "ch"
    THEN <<t.c>>
    ELSE <<"\"">> \o t.key \o <<"\"", ":">> \o ValueText(t.val)

\* the characters of a text
RECURSIVE RawChars(_)
RawChars(text) ==
    IF text = <<>> THEN <<>> ELSE TokenText(Head(text)) \o RawChars(Tail(text))

\* str.find / str.rfind of a one-character string; -1 when absent
Find(text, c) ==
    IF \E i \in 1..Len(text) : text[i] = Ch(c)
    THEN CHOOSE i \in 1..Len(text) :
             text[i] = Ch(c) /\ \A j \in 1..(i - 1) : text[j] # Ch(c)
    ELSE -1

RFind(text, c) ==
    IF \E i \in 1..Len(text) : text[i] = Ch(c)
    THEN CHOOSE i \in 1..Len(text) :
             text[i] = Ch(c) /\ \A j \in (i + 1)..Len(text) : text[j] # Ch(c)
    ELSE -1

\* json.loads(sub) does not raise
JsonDecodes(sub) ==
    /\ Len(sub) >= 2
    /\ sub[1] = Ch("{")
    /\ sub[Len(sub)] = Ch("}")
    /\ \A i \in 2..(Len(sub) - 1) : sub[i].tok = "member" \/ sub[i] = Ch(" ")

HasKey(sub, key) == \E i \in 1..Len(sub) : sub[i].tok = "member" /\ sub[i].key = key

\* j.get(key, default): the last member of that key wins
JsonGet(sub, key, default) ==
    IF HasKey(sub, key)
    THEN sub[CHOOSE i \in 1..Len(sub) :
                 /\ sub[i].tok = "member" /\ sub[i].key = key
                 /\ \A j \in (i + 1)..Len(sub) :
                        ~(sub[j].tok = "member" /\ sub[j].key = key)].val
    ELSE default

\* bool(v)
Truthy(v) ==
    CASE v.type = "bool" -> v.b
      [] v.type = "null" -> FALSE
      [] v.type = "str"  -> v.s # <<>>
      [] OTHER           -> v.b

\* str.strip()
RECURSIVE LStrip(_)
LStrip(chars) ==
    IF chars # <<>> /\ Head(chars) = " " THEN LStrip(Tail(chars)) ELSE chars

RECURSIVE RStrip(_)
RStrip(chars) ==
    IF chars # <<>> /\ chars[Len(chars)] = " "
    THEN RStrip(SubSeq(chars, 1, Len(chars) - 1))
    ELSE chars

Strip(chars) == RStrip(LStrip(chars))

SUMMARY_CHARS == 500

Verdict(has_promotion, promotion_summary) ==
    [has_promotion |-> has_promotion, promotion_summary |-> promotion_summary]

parse_ai_response(resp_text) ==
    LET start == Find(resp_text, "{")
        end   == RFind(resp_text, "}")
        sub   == SubSeq(resp_text, start, end)
    IN  IF start # -1 /\ end # -1 /\ end > start /\ JsonDecodes(sub)
        THEN Verdict(Truthy(JsonGet(sub, HAS_PROMOTION, JNull)),
                     JsonGet(sub, PROMOTION_SUMMARY, JStr(<<>>)))
        ELSE LET low == Lower(RawChars(resp_text))
             IN  Verdict(AnyKeywordIn(low),
                         JStr(Take(Strip(RawChars(resp_text)), SUMMARY_CHARS)))

\* What model.generate_content does: raise (with a message) or reply with a text.
AiOutcome(raises, text) == [raises |-> raises, text |-> text]

\* call_gemini: the reply's text, or "ERROR_AI: <message>" when the call raised
call_gemini(outcome) ==
    IF outcome.raises THEN Str(ERROR_AI) \o outcome.text ELSE outcome.text

PageResult(url, has_promotion, promotion_summary, status) ==
    [url |-> url, has_promotion |-> has_promotion,
     promotion_summary |-> promotion_summary, status |-> status]

\* analyze_page when fetch_text gave no text
analyze_page_fetch_failed(url) == PageResult(url, FALSE, JStr(<<>>), "fetch_failed")

\* analyze_page from the AI call on: parse the reply, then update url and status
analyze_page_analyzed(url, outcome) ==
    LET parsed == parse_ai_response(call_gemini(outcome))
    IN  PageResult(url, parsed.has_promotion, parsed.promotion_summary, "ok")

(***************************************************************************)
(* Orchestrator: the state of one run of main().                            *)
(***************************************************************************)
VARIABLES
    settings,       \* cfg's max_concurrent and batch_size
    cfg_sites,      \* cfg["sites"] as loaded from config.yml
    api_key,        \* whether GEMINI_API_KEY is set in the environment
    pc,             \* where main() is
    sites_list,     \* main's sites_list
    batch_i,        \* run_all's loop variable i
    all_results,    \* run_all's all_results
    sem,            \* value of run_all's asyncio.Semaphore
    sitePc,         \* per site: where its sem_task / process_site is
    candidates,     \* per site: process_site's candidates
    chunk_i,        \* per site: process_site's loop variable i
    pagePc,         \* per site, per candidate: where its analyze_page is
    pageRes,        \* per site, per candidate: what its analyze_page returned
    siteRes,        \* per site: what its sem_task returned
    homeFailed,     \* per site: the homepage fetch of extraction returned None
    aiRaised,       \* per site, per candidate: its AI call raised an exception
    network,        \* a GET or an AI call has been issued
    json_written,   \* results/results.json has been written
    csv_written,    \* results/results.csv has been written
    call            \* a single call of a pure function: its inputs and result

vars == <<settings, cfg_sites, api_key, pc, sites_list, batch_i, all_results, sem, sitePc,
          candidates, chunk_i, pagePc, pageRes, siteRes, homeFailed, aiRaised,
          network, json_written, csv_written, call>>

runVars == <<settings, cfg_sites, api_key, pc, sites_list, batch_i, all_results, sem, sitePc,
             candidates, chunk_i, pagePc, pageRes, siteRes, homeFailed, aiRaised,
             network, json_written, csv_written>>

\* The config.yml files of the model: [max_concurrent, batch_size]
Configs ==
    {[max_concurrent |-> 1, batch_size |-> 2],
     [max_concurrent |-> 2, batch_size |-> 1],
     [max_concurrent |-> 2, batch_size |-> 2]}

MAX_CONCURRENT == settings.max_concurrent

BATCH_SIZE == settings.batch_size

HTTP == <<"h","t","t","p">>

HTTPS == <<"h","t","t","p","s">>

\* The k-th site of the configuration: http://<k-th letter>/
SiteUrl(k) == Url(HTTP, <<LOWER[k]>>, <<"/">>)

ConfigItem(kind, url) == [kind |-> kind, url |-> url]

\* cfg["sites"]: n sites, the first written {url: ...}, the others as bare strings
ConfigOf(n) ==
    [k \in 1..n |-> ConfigItem(IF k = 1 THEN "dict" ELSE "str", SiteUrl(k))]

\* a sites entry that is neither a mapping nor a string
OtherItem == ConfigItem("other", SiteUrl(1))

RawConfigs == {ConfigOf(n) : n \in 0..MaxSites} \cup {<<OtherItem>>}

RECURSIVE load_sites_from_config(_)
load_sites_from_config(raw) ==
    IF raw = <<>>
    THEN <<>>
    ELSE IF Head(raw).kind \in {"dict", "str"}
         THEN <<Head(raw).url>> \o load_sites_from_config(Tail(raw))
         ELSE load_sites_from_config(Tail(raw))

Pending == [pending |-> TRUE]

NoCall == [fn |-> "none"]

\* Homepages the sites may serve.
PlainHome == Body(FALSE, <<>>)

PromoHome == Body(FALSE, <<Anchor(Href("path", <<>>, <<>>, <<"/">> \o SALE), <<>>)>>)

BrokenHome == Body(FALSE, <<Anchor(Href("bad", <<>>, <<>>, <<>>), <<>>)>>)

HomeBodies == {PlainHome, PromoHome, BrokenHome}

PageBodies == {PlainHome}

\* What the GET attempts of one fetch_text call may do.
AttemptSeqs(bodies, retry_count) ==
    [1..(retry_count + 1) ->
        {FailedAttempt, HttpErrorAttempt} \cup {Attempt(TRUE, b) : b \in bodies}]

\* What fetch_text may return for a homepage, and for a candidate page.
HomeFetches == {fetch_text(o, RETRY_COUNT) : o \in AttemptSeqs(HomeBodies, RETRY_COUNT)}

PageFetches == {fetch_text(o, RETRY_COUNT) : o \in AttemptSeqs(PageBodies, RETRY_COUNT)}

\* Replies of the AI service.
PromoReply ==
    Str(<<"{">>) \o <<Member(HAS_PROMOTION, JBool(TRUE)),
                      Member(PROMOTION_SUMMARY, JStr(<<"2","0","%">>))>> \o Str(<<"}">>)

NoPromoReply ==
    Str(<<"{">>) \o <<Member(HAS_PROMOTION, JBool(FALSE)),
                      Member(PROMOTION_SUMMARY, JStr(<<>>))>> \o Str(<<"}">>)

\* a reply that reports a promotion and gives null for its summary
NullSummaryReply ==
    Str(<<"{">>) \o <<Member(HAS_PROMOTION, JBool(TRUE)),
                      Member(PROMOTION_SUMMARY, JNull)>> \o Str(<<"}">>)

\* the message of the exception an AI call raises
AiErrorText == Str(<<"k","e","y">>)

AiOutcomes ==
    {AiOutcome(TRUE, AiErrorText)}
        \cup (IF api_key
              THEN {AiOutcome(FALSE, PromoReply), AiOutcome(FALSE, NoPromoReply),
                    AiOutcome(FALSE, NullSummaryReply)}
              ELSE {})

\* main() has not run yet
RunNotStarted ==
    /\ pc = "start"
    /\ sites_list = <<>>
    /\ batch_i = 0
    /\ all_results = <<>>
    /\ sem = MAX_CONCURRENT
    /\ sitePc = <<>>
    /\ candidates = <<>>
    /\ chunk_i = <<>>
    /\ pagePc = <<>>
    /\ pageRes = <<>>
    /\ siteRes = <<>>
    /\ homeFailed = <<>>
    /\ aiRaised = <<>>
    /\ network = FALSE
    /\ json_written = FALSE
    /\ csv_written = FALSE

Init ==
    /\ settings \in Configs
    /\ cfg_sites \in RawConfigs
    /\ api_key \in BOOLEAN
    /\ RunNotStarted
    /\ call = NoCall

(***************************************************************************)
(* process_site: aggregation of the page results, and the except branch.    *)
(***************************************************************************)
RECURSIVE SummariesOf(_)
\* [r.get("promotion_summary") for r in results if r.get("has_promotion")]
SummariesOf(results) ==
    IF results = <<>>
    THEN <<>>
    ELSE (IF Head(results).has_promotion
          THEN <<Head(results).promotion_summary>>
          ELSE <<>>) \o SummariesOf(Tail(results))

\* as SiteResult, with the summaries of all pages, promoting or not
SiteResultAllSummaries(site_url, results) ==
    [site |-> site_url,
     has_promotion |-> \E i \in 1..Len(results) : results[i].has_promotion,
     promotion_summaries |-> [i \in 1..Len(results) |-> results[i].promotion_summary],
     pages |-> results]

\* the dict process_site returns from its try block (checked_at left out)
SiteResult(site_url, results) ==
    [site |-> site_url,
     has_promotion |-> \E i \in 1..Len(results) : results[i].has_promotion,
     promotion_summaries |-> SummariesOf(results),
     pages |-> results]

\* the dict process_site returns from its except block: it has no "pages" key
SiteError(site_url) ==
    [site |-> site_url, has_promotion |-> FALSE, promotion_summaries |-> <<>>,
     error |-> <<"e","r","r">>]

Sites == 1..Len(sites_list)

\* the sites of tasks[i:i+BATCH_SIZE]
Batch(i) == {s \in Sites : i < s /\ s <= i + BATCH_SIZE}

\* the candidates of tasks[i:i+MAX_CONCURRENT] in process_site
Chunk(s, i) == {p \in 1..Len(candidates[s]) : i < p /\ p <= i + MAX_CONCURRENT}

Min(a, b) == IF a < b THEN a ELSE b

\* as Main, without the `if not sites_list: return`
MainNoEmptyCheck ==
    /\ pc = "start"
    /\ sites_list' = load_sites_from_config(cfg_sites)
    /\ LET n == Len(sites_list')
       IN  /\ pc' = "run_all"
           /\ sitePc' = [s \in 1..n |-> "created"]
           /\ candidates' = [s \in 1..n |-> <<>>]
           /\ chunk_i' = [s \in 1..n |-> 0]
           /\ pagePc' = [s \in 1..n |-> <<>>]
           /\ pageRes' = [s \in 1..n |-> <<>>]
           /\ siteRes' = [s \in 1..n |-> Pending]
           /\ homeFailed' = [s \in 1..n |-> FALSE]
           /\ aiRaised' = [s \in 1..n |-> <<>>]
    /\ batch_i' = 0
    /\ all_results' = <<>>
    /\ sem' = MAX_CONCURRENT
    /\ UNCHANGED <<settings, cfg_sites, api_key, network, json_written, csv_written,
                   call>>

(***************************************************************************)
(* main: load the sites; return when there are none, else start run_all     *)
(* (which creates the semaphore, the session and one coroutine per site).   *)
(***************************************************************************)
Main ==
    /\ pc = "start"
    /\ sites_list' = load_sites_from_config(cfg_sites)
    /\ LET n == Len(sites_list')
       IN  /\ pc' = IF n = 0 THEN "no_sites" ELSE "run_all"
           /\ sitePc' = [s \in 1..n |-> "created"]
           /\ candidates' = [s \in 1..n |-> <<>>]
           /\ chunk_i' = [s \in 1..n |-> 0]
           /\ pagePc' = [s \in 1..n |-> <<>>]
           /\ pageRes' = [s \in 1..n |-> <<>>]
           /\ siteRes' = [s \in 1..n |-> Pending]
           /\ homeFailed' = [s \in 1..n |-> FALSE]
           /\ aiRaised' = [s \in 1..n |-> <<>>]
    /\ batch_i' = 0
    /\ all_results' = <<>>
    /\ sem' = MAX_CONCURRENT
    /\ UNCHANGED <<settings, cfg_sites, api_key, network, json_written, csv_written, call>>

\* as GatherBatch, with one gather over the tasks of all batches
GatherAllBatches ==
    /\ pc = "run_all"
    /\ batch_i < Len(sites_list)
    /\ \A s \in Batch(batch_i) : sitePc[s] = "created"
    /\ sitePc' = [s \in Sites |->
                     IF sitePc[s] = "created"
                     THEN IF s - batch_i <= sem THEN "fetch_home" ELSE "waiting"
                     ELSE sitePc[s]]
    /\ sem' = sem - Min(sem, Len(sites_list) - batch_i)
    /\ network' = (network \/ sem > 0)
    /\ UNCHANGED <<settings, cfg_sites, api_key, pc, sites_list, batch_i, all_results,
                   candidates, chunk_i, pagePc, pageRes, siteRes, homeFailed, aiRaised,
                   json_written, csv_written, call>>

(***************************************************************************)
(* run_all: await asyncio.gather on the batch.  Every sem_task of the batch      *)
(* starts; in task order, each takes a permit while one is free and goes    *)
(* on, without suspending, to the GET of its homepage; the others wait on   *)
(* the semaphore.                                                           *)
(***************************************************************************)
GatherBatch ==
    /\ pc = "run_all"
    /\ batch_i < Len(sites_list)
    /\ \A s \in Batch(batch_i) : sitePc[s] = "created"
    /\ sitePc' = [s \in Sites |->
                     IF s \in Batch(batch_i)
                     THEN IF s - batch_i <= sem THEN "fetch_home" ELSE "waiting"
                     ELSE sitePc[s]]
    /\ sem' = sem - Min(sem, Cardinality(Batch(batch_i)))
    /\ network' = (network \/ sem > 0)
    /\ UNCHANGED <<settings, cfg_sites, api_key, pc, sites_list, batch_i, all_results,
                   candidates, chunk_i, pagePc, pageRes, siteRes, homeFailed, aiRaised,
                   json_written, csv_written, call>>

\* sem_task: a waiter is woken (first come, first served), takes the permit and
\* starts process_site, up to the GET of the homepage
SemTaskEnter(s) ==
    /\ pc = "run_all"
    /\ sitePc[s] = "waiting"
    /\ sem > 0
    /\ \A t \in Sites : t < s => sitePc[t] # "waiting"
    /\ sem' = sem - 1
    /\ sitePc' = [sitePc EXCEPT ![s] = "fetch_home"]
    /\ network' = TRUE
    /\ UNCHANGED <<settings, cfg_sites, api_key, pc, sites_list, batch_i, all_results,
                   candidates, chunk_i, pagePc, pageRes, siteRes, homeFailed, aiRaised,
                   json_written, csv_written, call>>

\* as Finish, with the permit kept when the task ends
FinishWithoutRelease(s, result) ==
    /\ siteRes' = [siteRes EXCEPT ![s] = result]
    /\ sitePc' = [sitePc EXCEPT ![s] = "done"]
    /\ sem' = sem

\* process_site returns `result`; sem_task leaves `async with sem`
Finish(s, result) ==
    /\ siteRes' = [siteRes EXCEPT ![s] = result]
    /\ sitePc' = [sitePc EXCEPT ![s] = "done"]
    /\ sem' = sem + 1

\* process_site awaits asyncio.gather on a chunk: the analyze_page calls of
\* tasks[i:i+MAX_CONCURRENT] start, each up to the GET of its page
StartChunk(s, cands, i) ==
    /\ pagePc' = [pagePc EXCEPT ![s] =
                     [p \in 1..Len(cands) |->
                         IF i < p /\ p <= i + MAX_CONCURRENT
                         THEN "fetching"
                         ELSE IF p <= i THEN "done" ELSE "pending"]]
    /\ chunk_i' = [chunk_i EXCEPT ![s] = i]

(***************************************************************************)
(* The homepage fetch of extract_candidate_links completes: the rest of     *)
(* extract_candidate_links runs, then process_site up to its first gather   *)
(* (or to its return, when there is no candidate or an exception).          *)
(***************************************************************************)
HomeFetched(s) ==
    /\ pc = "run_all"
    /\ sitePc[s] = "fetch_home"
    /\ \E html \in HomeFetches :
         LET ex    == extract_candidate_links(html, sites_list[s], MAX_PAGES_PER_SITE)
             cands == Take(ex.value, MAX_PAGES_PER_SITE)
         IN  /\ homeFailed' = [homeFailed EXCEPT ![s] = html.none]
             /\ IF ex.raised
                THEN /\ Finish(s, SiteError(sites_list[s]))
                     /\ UNCHANGED <<candidates, chunk_i, pagePc, pageRes, aiRaised>>
                ELSE /\ candidates' = [candidates EXCEPT ![s] = cands]
                     /\ pageRes' = [pageRes EXCEPT ![s] =
                                       [p \in 1..Len(cands) |-> Pending]]
                     /\ aiRaised' = [aiRaised EXCEPT ![s] =
                                        [p \in 1..Len(cands) |-> FALSE]]
                     /\ IF cands = <<>>
                        THEN /\ Finish(s, SiteResult(sites_list[s], <<>>))
                             /\ UNCHANGED <<chunk_i, pagePc>>
                        ELSE /\ StartChunk(s, cands, 0)
                             /\ sitePc' = [sitePc EXCEPT ![s] = "analyzing"]
                             /\ UNCHANGED <<siteRes, sem>>
    /\ UNCHANGED <<settings, cfg_sites, api_key, pc, sites_list, batch_i, all_results,
                   network, json_written, csv_written, call>>

\* analyze_page: its fetch_text returns; on no text it returns fetch_failed,
\* otherwise it builds the prompt and starts the AI call
PageFetched(s, p) ==
    /\ pc = "run_all"
    /\ sitePc[s] = "analyzing"
    /\ pagePc[s][p] = "fetching"
    /\ \E html \in PageFetches :
             IF NotHtml(html)
             THEN /\ pagePc' = [pagePc EXCEPT ![s][p] = "done"]
                  /\ pageRes' = [pageRes EXCEPT ![s][p] =
                                    analyze_page_fetch_failed(candidates[s][p])]
             ELSE /\ pagePc' = [pagePc EXCEPT ![s][p] = "ai"]
                  /\ UNCHANGED pageRes
    /\ UNCHANGED <<settings, cfg_sites, api_key, pc, sites_list, batch_i, all_results, sem,
                   sitePc, candidates, chunk_i, siteRes, homeFailed, aiRaised, network,
                   json_written, csv_written, call>>

\* analyze_page: call_gemini returns; the reply is parsed and the page result
\* returned
PageAnalyzed(s, p) ==
    /\ pc = "run_all"
    /\ sitePc[s] = "analyzing"
    /\ pagePc[s][p] = "ai"
    /\ \E outcome \in AiOutcomes :
         /\ pageRes' = [pageRes EXCEPT ![s][p] =
                           analyze_page_analyzed(candidates[s][p], outcome)]
         /\ aiRaised' = [aiRaised EXCEPT ![s][p] = outcome.raises]
    /\ pagePc' = [pagePc EXCEPT ![s][p] = "done"]
    /\ UNCHANGED <<settings, cfg_sites, api_key, pc, sites_list, batch_i, all_results, sem,
                   sitePc, candidates, chunk_i, siteRes, homeFailed, network,
                   json_written, csv_written, call>>

\* as ChunkDone, returning as soon as one analysis of the chunk has completed,
\* with the results that exist by then
ChunkDoneFirstCompleted(s) ==
    /\ pc = "run_all"
    /\ sitePc[s] = "analyzing"
    /\ \E p \in Chunk(s, chunk_i[s]) : pagePc[s][p] = "done"
    /\ Finish(s, SiteResult(sites_list[s],
                            SelectSeq(pageRes[s], LAMBDA r : r # Pending)))
    /\ UNCHANGED <<settings, cfg_sites, api_key, pc, sites_list, batch_i, all_results,
                   candidates, chunk_i, pagePc, pageRes, homeFailed, aiRaised, network,
                   json_written, csv_written, call>>

\* process_site: gather on the chunk returns; results.extend(res); the next chunk
\* starts, or the site result is built and returned
ChunkDone(s) ==
    /\ pc = "run_all"
    /\ sitePc[s] = "analyzing"
    /\ \A p \in Chunk(s, chunk_i[s]) : pagePc[s][p] = "done"
    /\ IF chunk_i[s] + MAX_CONCURRENT < Len(candidates[s])
       THEN /\ StartChunk(s, candidates[s], chunk_i[s] + MAX_CONCURRENT)
            /\ UNCHANGED <<siteRes, sitePc, sem>>
       ELSE /\ Finish(s, SiteResult(sites_list[s], pageRes[s]))
            /\ UNCHANGED <<chunk_i, pagePc>>
    /\ UNCHANGED <<settings, cfg_sites, api_key, pc, sites_list, batch_i, all_results,
                   candidates, pageRes, homeFailed, aiRaised, network, json_written,
                   csv_written, call>>

\* as BatchDone, with the batch's results taken last task first
BatchDoneReversed ==
    /\ pc = "run_all"
    /\ Batch(batch_i) # {}
    /\ \A s \in Batch(batch_i) : sitePc[s] = "done"
    /\ all_results' = all_results \o
                      [k \in 1..Cardinality(Batch(batch_i)) |->
                          siteRes[batch_i + Cardinality(Batch(batch_i)) + 1 - k]]
    /\ batch_i' = batch_i + BATCH_SIZE
    /\ pc' = IF batch_i' < Len(sites_list) THEN "run_all" ELSE "save_json"
    /\ UNCHANGED <<settings, cfg_sites, api_key, sites_list, sem, sitePc, candidates, chunk_i,
                   pagePc, pageRes, siteRes, homeFailed, aiRaised, network, json_written,
                   csv_written, call>>

\* run_all: gather on the batch returns the batch's results in task order;
\* all_results.extend(batch_res); next batch, or return all_results to main
BatchDone ==
    /\ pc = "run_all"
    /\ Batch(batch_i) # {}
    /\ \A s \in Batch(batch_i) : sitePc[s] = "done"
    /\ all_results' = all_results \o
                      [k \in 1..Cardinality(Batch(batch_i)) |-> siteRes[batch_i + k]]
    /\ batch_i' = batch_i + BATCH_SIZE
    /\ pc' = IF batch_i' < Len(sites_list) THEN "run_all" ELSE "save_json"
    /\ UNCHANGED <<settings, cfg_sites, api_key, sites_list, sem, sitePc, candidates, chunk_i,
                   pagePc, pageRes, siteRes, homeFailed, aiRaised, network, json_written,
                   csv_written, call>>

\* save_results_json
SaveJson ==
    /\ pc = "save_json"
    /\ json_written' = TRUE
    /\ pc' = "save_csv"
    /\ UNCHANGED <<settings, cfg_sites, api_key, sites_list, batch_i, all_results, sem, sitePc,
                   candidates, chunk_i, pagePc, pageRes, siteRes, homeFailed, aiRaised,
                   network, csv_written, call>>

\* " || ".join(...) raises TypeError on an item that is not a str
JoinRaises(summaries) == \E i \in 1..Len(summaries) : summaries[i].type # "str"

\* save_results_csv, then main's closing print; the file is opened (and so
\* created) before any row is written
SaveCsv ==
    /\ pc = "save_csv"
    /\ csv_written' = TRUE
    /\ pc' = IF \E k \in 1..Len(all_results) :
                    JoinRaises(all_results[k].promotion_summaries)
             THEN "crashed"
             ELSE "done"
    /\ UNCHANGED <<settings, cfg_sites, api_key, sites_list, batch_i, all_results, sem, sitePc,
                   candidates, chunk_i, pagePc, pageRes, siteRes, homeFailed, aiRaised,
                   network, json_written, call>>

Next ==
    \/ Main
    \/ GatherBatch
    \/ \E s \in Sites : SemTaskEnter(s)
    \/ \E s \in Sites : HomeFetched(s)
    \/ \E s \in Sites : \E p \in 1..Len(candidates[s]) : PageFetched(s, p)
    \/ \E s \in Sites : \E p \in 1..Len(candidates[s]) : PageAnalyzed(s, p)
    \/ \E s \in Sites : ChunkDone(s)
    \/ BatchDone
    \/ SaveJson
    \/ SaveCsv

Spec == Init /\ [][Next]_vars

(***************************************************************************)
(* Single calls of fetch_text and of the Link Extractor, on inputs drawn    *)
(* from bounded sets.  The run itself stays unstarted.                      *)
(***************************************************************************)
IdleSettings == [max_concurrent |-> 1, batch_size |-> 1]

Idle ==
    /\ settings = IdleSettings
    /\ cfg_sites = <<>>
    /\ api_key = TRUE
    /\ RunNotStarted

\* bodies a GET may yield: an empty text, a page without links, a page with one
FetchBodies == {EmptyBody, PlainHome, PromoHome}

FetchCalls ==
    {[fn |-> "fetch_text", outcomes |-> o, retry_count |-> rc,
      done |-> FALSE, result |-> Pending] :
        rc \in 0..MaxRetry, o \in UNION {AttemptSeqs(FetchBodies, r) : r \in 0..MaxRetry}}

InitFetch ==
    /\ Idle
    /\ call \in {c \in FetchCalls : Len(c.outcomes) = c.retry_count + 1}

CallFetchText ==
    /\ call.fn = "fetch_text"
    /\ ~call.done
    /\ call' = [call EXCEPT !.done = TRUE,
                            !.result = fetch_text(call.outcomes, call.retry_count)]
    /\ UNCHANGED runVars

SpecFetch == InitFetch /\ [][CallFetchText]_vars

\* Anchors a homepage of http://a/ may hold.
Anchors ==
    {Anchor(Href("path", <<>>, <<>>, <<"/">> \o SALE), <<>>),
     Anchor(Href("path", <<>>, <<>>, <<"/","x">>), <<"D","e","a","l">>),
     Anchor(Href("path", <<>>, <<>>, <<"/","x">>), <<>>),
     Anchor(Href("path", <<>>, <<>>, <<"/","y">>), GIFT),
     Anchor(Href("abs", HTTP, <<"b">>, <<"/">> \o SALE), <<>>),
     Anchor(Href("abs", HTTPS, <<"a">>, <<"/">> \o SALE), <<>>),
     Anchor(Href("netrel", <<>>, <<"a">>, <<"/">> \o DEAL), <<>>),
     Anchor(Href("empty", <<>>, <<>>, <<>>), SALE),
     Anchor(Href("bad", <<>>, <<>>, <<>>), SALE)}

AnchorSeqs == UNION {[1..n -> Anchors] : n \in 0..MaxAnchors}

\* what fetch_text returned for the homepage: None, "" or a page
HomeTexts ==
    {FetchResult(TRUE, EmptyBody, 1, 0), FetchResult(FALSE, EmptyBody, 1, 0)}
        \cup {FetchResult(FALSE, Body(FALSE, a), 1, 0) : a \in AnchorSeqs}

InitExtract ==
    /\ Idle
    /\ call \in [fn : {"extract_candidate_links"}, html : HomeTexts,
                 site_url : {SiteUrl(1)}, max_links : 1..MaxLinks,
                 done : {FALSE}, result : {Pending}]

CallExtract ==
    /\ call.fn = "extract_candidate_links"
    /\ ~call.done
    /\ call' = [call EXCEPT
                   !.done = TRUE,
                   !.result = extract_candidate_links(call.html, call.site_url,
                                                      call.max_links)]
    /\ UNCHANGED runVars

SpecExtract == InitExtract /\ [][CallExtract]_vars

\* Pieces of a reply of the model: braces, blanks, prose with and without a
\* keyword in several letter cases, and members of a JSON object.
Segments ==
    {Str(<<"{">>), Str(<<"}">>), Str(<<" ">>), Str(<<"n","o">>),
     Str(SALE), Str(<<"S","A","L","E">>), Str(<<"g","i","f","t">>), Str(GIFT),
     <<Member(HAS_PROMOTION, JBool(TRUE))>>,
     <<Member(HAS_PROMOTION, JStr(<<"n","o">>))>>,
     <<Member(HAS_PROMOTION, JNum(<<"0">>, FALSE))>>,
     <<Member(PROMOTION_SUMMARY, JStr(SALE))>>,
     <<Member(PROMOTION_SUMMARY, JNull)>>}

RECURSIVE Concat(_)
Concat(segs) == IF segs = <<>> THEN <<>> ELSE Head(segs) \o Concat(Tail(segs))

\* the reply texts of up to MaxSegments pieces
ReplyTexts == {Concat(segs) : segs \in UNION {[1..n -> Segments] : n \in 0..MaxSegments}}

InitParse ==
    /\ Idle
    /\ call \in [fn : {"parse_ai_response"}, resp_text : ReplyTexts,
                 done : {FALSE}, result : {Pending}]

CallParse ==
    /\ call.fn = "parse_ai_response"
    /\ ~call.done
    /\ call' = [call EXCEPT !.done = TRUE,
                            !.result = parse_ai_response(call.resp_text)]
    /\ UNCHANGED runVars

SpecParse == InitParse /\ [][CallParse]_vars

\* the two places where keywords are matched, each called once
SpecMatch == (InitExtract \/ InitParse) /\ [][CallExtract \/ CallParse]_vars

(***************************************************************************)
(* Properties.                                                              *)
(***************************************************************************)
\* fetch/analyze operations in flight: homepage fetches of extraction, and
\* analyze_page calls that are fetching or waiting for the AI reply
InFlight ==
    Cardinality({s \in Sites : sitePc[s] = "fetch_home"})
    + Cardinality({sp \in Sites \X (1..MAX_PAGES_PER_SITE) :
                      /\ sp[2] <= Len(pagePc[sp[1]])
                      /\ pagePc[sp[1]][sp[2]] \in {"fetching", "ai"}})

\* run_all has returned its list to main
RunAllReturned == pc \in {"save_json", "save_csv", "done", "crashed"}

\* C1: at every moment of a run the number of fetch/analyze operations in
\* flight, over all sites together, is at most max_concurrent.
C1_InFlightWithinMaxConcurrent == InFlight <= MAX_CONCURRENT

\* C2: the list run_all returns has exactly one result per configured site, and
\* its i-th entry is the result of the i-th configured site.
C2_OneResultPerSiteInOrder ==
    RunAllReturned =>
        /\ Len(all_results) = Len(sites_list)
        /\ \A i \in 1..Len(sites_list) :
              /\ all_results[i].site = sites_list[i]
              /\ all_results[i] = siteRes[i]

\* C2 witness: a run of two sites in which every homepage fetch failed has
\* returned.
C2_Witness ==
    /\ pc = "save_json"
    /\ Len(sites_list) = 2
    /\ homeFailed[1] /\ homeFailed[2]

\* the positions of the pages of r that report a promotion
TruePages(r) == {i \in 1..Len(r.pages) : r.pages[i].has_promotion}

\* r aggregates its pages: the flag is the disjunction, and the k-th summary is
\* the summary of the k-th promoting page
Aggregates(r) ==
    IF "pages" \in DOMAIN r
    THEN /\ r.has_promotion = (TruePages(r) # {})
         /\ Len(r.promotion_summaries) = Cardinality(TruePages(r))
         /\ \A i \in TruePages(r) :
               r.promotion_summaries[Cardinality({j \in TruePages(r) : j <= i})]
                   = r.pages[i].promotion_summary
    ELSE ~r.has_promotion /\ r.promotion_summaries = <<>>

\* C3: in every site result, has_promotion is true iff some page of it has
\* has_promotion true, and promotion_summaries is the summaries of exactly those
\* pages, in page order.
C3_SiteAggregatesItsPages ==
    /\ \A s \in Sites : sitePc[s] = "done" => Aggregates(siteRes[s])
    /\ \A k \in 1..Len(all_results) : Aggregates(all_results[k])

\* C3 witness: a finished site of two pages, the first without and the second
\* with a promotion.
C3_Witness ==
    \E s \in Sites :
        /\ sitePc[s] = "done"
        /\ "pages" \in DOMAIN siteRes[s]
        /\ Len(siteRes[s].pages) = 2
        /\ ~siteRes[s].pages[1].has_promotion
        /\ siteRes[s].pages[2].has_promotion

\* C4: a site whose homepage fetch failed has has_promotion false and a pages
\* list that is empty or one fetch_failed entry.
C4_HomepageFetchFailed ==
    \A s \in Sites :
        (sitePc[s] = "done" /\ homeFailed[s]) =>
            /\ ~siteRes[s].has_promotion
            /\ "pages" \in DOMAIN siteRes[s]
            /\ \/ siteRes[s].pages = <<>>
               \/ /\ Len(siteRes[s].pages) = 1
                  /\ siteRes[s].pages[1].status = "fetch_failed"

\* C4 witness: a site has finished after its homepage fetch failed.
C4_Witness == \E s \in Sites : sitePc[s] = "done" /\ homeFailed[s]

\* C5: a site whose processing raised is recorded with error set,
\* has_promotion false and pages equal to the empty list.
C5_ErrorResultHasEmptyPages ==
    \A s \in Sites :
        (sitePc[s] = "done" /\ "error" \in DOMAIN siteRes[s]) =>
            /\ ~siteRes[s].has_promotion
            /\ "pages" \in DOMAIN siteRes[s]
            /\ siteRes[s].pages = <<>>

\* C6: a page whose AI call raised is returned with status error.
C6_AiExceptionGivesErrorStatus ==
    \A s \in Sites : \A p \in 1..Len(pagePc[s]) :
        (pagePc[s][p] = "done" /\ aiRaised[s][p]) => pageRes[s][p].status = "error"

\* C7: without an API key the program stops at startup: run_all is never
\* entered and no fetch or AI call is issued.
C7_NoRunWithoutApiKey ==
    ~api_key => (~network /\ pc \in {"start", "no_sites"})

\* C8: with an empty site list main returns before any network activity and
\* writes no results file.
C8_EmptySiteListAborts ==
    load_sites_from_config(cfg_sites) = <<>> =>
        /\ pc \in {"start", "no_sites"}
        /\ ~network
        /\ ~json_written
        /\ ~csv_written

\* C8 witness: main has returned for want of sites.
C8_Witness == pc = "no_sites"

\* the attempts of a fetch_text call that succeed
OkAttempts(c) == {i \in 1..(c.retry_count + 1) : c.outcomes[i].ok}

\* C9: fetch_text issues at most retry_count + 1 GETs; it returns the text of
\* the first attempt that succeeds, having slept once after each failed attempt
\* before it; it returns None exactly when all retry_count + 1 attempts fail,
\* and then it has slept retry_count times (not after the last attempt).
C9_FetchTextBoundedRetry ==
    (call.fn = "fetch_text" /\ call.done) =>
        /\ call.result.gets <= call.retry_count + 1
        /\ call.result.none = (OkAttempts(call) = {})
        /\ IF OkAttempts(call) # {}
           THEN LET first == CHOOSE i \in OkAttempts(call) :
                                 \A j \in OkAttempts(call) : i <= j
                IN  /\ call.result.body = call.outcomes[first].body
                    /\ call.result.gets = first
                    /\ call.result.sleeps = first - 1
           ELSE /\ call.result.gets = call.retry_count + 1
                /\ call.result.sleeps = call.retry_count

\* C9 witness: a call whose first attempt failed and whose second succeeded has
\* returned.
C9_Witness ==
    /\ call.fn = "fetch_text"
    /\ call.done
    /\ ~call.outcomes[1].ok
    /\ call.retry_count >= 1
    /\ call.outcomes[2].ok

\* C10: the Link Extractor, called with max_links >= 1, returns at most
\* max_links entries.
C10_AtMostMaxLinks ==
    (call.fn = "extract_candidate_links" /\ call.done /\ ~call.result.raised) =>
        Len(call.result.value) <= call.max_links

\* C11 as stated: every URL the Link Extractor returns has the scheme and the
\* host of the homepage; a link that differs in either one is never returned.
C11_SameSchemeAndHost ==
    (call.fn = "extract_candidate_links" /\ call.done /\ ~call.result.raised)
        => \A i \in 1..Len(call.result.value) :
              /\ call.result.value[i].scheme = call.site_url.scheme
              /\ call.result.value[i].netloc = call.site_url.netloc

\* C11 amended: every URL the Link Extractor returns has the network location
\* (host and port) of the homepage; the scheme is not compared.
C11_SameNetloc ==
    (call.fn = "extract_candidate_links" /\ call.done /\ ~call.result.raised)
        => \A i \in 1..Len(call.result.value) :
              call.result.value[i].netloc = call.site_url.netloc

\* a page with a keyword link to another host, and a link that was kept
C11_Witness ==
    /\ call.fn = "extract_candidate_links" /\ call.done /\ ~call.result.raised
    /\ \E i \in 1..Len(call.html.body.anchors) :
          LET a == call.html.body.anchors[i]
          IN  /\ a.href.kind = "abs"
              /\ a.href.netloc # call.site_url.netloc
              /\ AnyKeywordIn(Lower(a.href.path))
    /\ Len(call.result.value) >= 2

\* the absolute URL of the i-th anchor of the homepage of the call
C12_Link(i) ==
    LET h == call.html.body.anchors[i].href
    IN  IF h.kind = "abs" THEN Url(h.scheme, h.netloc, h.path)
                          ELSE normalize_link(h, call.site_url)

\* the i-th anchor passes the filters: href not empty, the homepage's netloc,
\* a keyword in the lowercased URL or in the lowercased anchor text
C12_Kept(i) ==
    LET a == call.html.body.anchors[i]
    IN  /\ a.href.kind \notin {"empty", "bad"}
        /\ C12_Link(i).netloc = call.site_url.netloc
        /\ \/ AnyKeywordIn(Lower(UrlString(C12_Link(i))))
           \/ AnyKeywordIn(Lower(a.text))

\* the anchor at which url is first discovered
C12_First(url) ==
    CHOOSE i \in 1..Len(call.html.body.anchors) :
        /\ C12_Kept(i) /\ C12_Link(i) = url
        /\ \A j \in 1..(i - 1) : ~(C12_Kept(j) /\ C12_Link(j) = url)

\* C12: for a homepage whose HTML was obtained, the returned list is the
\* homepage URL followed by the kept links in document order of first
\* discovery, and no URL occurs twice (the list is a function of the homepage
\* URL, its HTML, the keywords and max_links alone).
C12_HomepageThenKeptLinksInOrder ==
    (/\ call.fn = "extract_candidate_links" /\ call.done
     /\ ~call.result.raised /\ ~NotHtml(call.html))
        => LET v == call.result.value
               n == Len(call.html.body.anchors)
           IN  /\ Len(v) >= 1 /\ v[1] = call.site_url
               /\ \A k, l \in 1..Len(v) : k # l => v[k] # v[l]
               /\ \A k \in 2..Len(v) :
                     \E i \in 1..n : C12_Kept(i) /\ C12_Link(i) = v[k]
               /\ \A k, l \in 2..Len(v) :
                     k < l => C12_First(v[k]) < C12_First(v[l])
               /\ \A i \in 1..n :
                     (/\ C12_Kept(i)
                      /\ \/ Len(v) < call.max_links
                         \/ Len(v) >= 2 /\ i < C12_First(v[Len(v)]))
                        => \E k \in 1..Len(v) : v[k] = C12_Link(i)

\* a homepage with the same kept link twice and another kept link after it
C12_Witness ==
    /\ call.fn = "extract_candidate_links" /\ call.done
    /\ ~call.result.raised /\ ~NotHtml(call.html)
    /\ Len(call.result.value) = 3
    /\ \E i, j \in 1..Len(call.html.body.anchors) :
          i < j /\ C12_Kept(i) /\ C12_Kept(j) /\ C12_Link(i) = C12_Link(j)

\* the slice of the reply from its first "{" to its last "}" decodes as a
\* JSON object
C13_Decodes ==
    LET t == call.resp_text
    IN  /\ Find(t, "{") # -1 /\ RFind(t, "}") > Find(t, "{")
        /\ JsonDecodes(SubSeq(t, Find(t, "{"), RFind(t, "}")))

C13_Object == SubSeq(call.resp_text, Find(call.resp_text, "{"), RFind(call.resp_text, "}"))

\* C13: parse_ai_response returns a verdict for every reply.  When the slice
\* from the first "{" to the last "}" decodes as a JSON object, the verdict is
\* the object's has_promotion as a boolean and its promotion_summary ("" when
\* absent); otherwise has_promotion says whether some configured keyword occurs
\* in the reply, letter case ignored, and promotion_summary is the first 500
\* characters of the trimmed reply.
C13_VerdictForEveryReply ==
    (call.fn = "parse_ai_response" /\ call.done)
        => /\ DOMAIN call.result = {"has_promotion", "promotion_summary"}
           /\ IF C13_Decodes
              THEN /\ call.result.has_promotion
                        = (/\ HasKey(C13_Object, HAS_PROMOTION)
                           /\ Truthy(JsonGet(C13_Object, HAS_PROMOTION, JNull)))
                   /\ call.result.promotion_summary
                        = IF HasKey(C13_Object, PROMOTION_SUMMARY)
                          THEN JsonGet(C13_Object, PROMOTION_SUMMARY, JNull)
                          ELSE JStr(<<>>)
              ELSE /\ call.result.has_promotion
                        = (\E k \in KEYWORDS :
                              Contains(Lower(k), Lower(RawChars(call.resp_text))))
                   /\ call.result.promotion_summary
                        = JStr(Take(Strip(RawChars(call.resp_text)), SUMMARY_CHARS))

\* C14: a run over a non-empty site list is not ended by the failure of a page
\* or of a site, whatever the fetches and the AI replies were: it writes the
\* JSON and the CSV results, both only after the result of every site was
\* collected, and reaches the end of main.
C14_RunWritesResultsAndEnds ==
    /\ pc # "crashed"
    /\ (json_written \/ csv_written) => Len(all_results) = Len(sites_list)
    /\ pc = "done" => json_written /\ csv_written

\* C15: the result of a site is built only after every analysis launched for
\* the site has completed, and its pages are the results of the site's
\* candidates, one per candidate and in candidate order.
C15_PagesInCandidateOrder ==
    \A s \in Sites :
        (sitePc[s] = "done" /\ "pages" \in DOMAIN siteRes[s])
            => /\ \A p \in 1..Len(candidates[s]) : pagePc[s][p] = "done"
               /\ Len(siteRes[s].pages) = Len(candidates[s])
               /\ \A i \in 1..Len(candidates[s]) :
                     siteRes[s].pages[i].url = candidates[s][i]

\* a finished site whose two analyses ran concurrently
C15_Witness ==
    \E s \in Sites :
        /\ sitePc[s] = "done" /\ "pages" \in DOMAIN siteRes[s]
        /\ MAX_CONCURRENT = 2
        /\ Len(siteRes[s].pages) = 2
        /\ siteRes[s].pages[1].url # siteRes[s].pages[2].url

\* the number of the batch of site s, counted from 0
BatchOf(s) == (s - 1) \div BATCH_SIZE

\* C16: batches run strictly in sequence: no site of a later batch has started
\* (waits for the semaphore, holds it, fetches or analyzes) before every site
\* of the earlier batches has completed.
C16_BatchesInSequence ==
    \A s, t \in Sites :
        (BatchOf(s) < BatchOf(t) /\ sitePc[t] # "created") => sitePc[s] = "done"

\* a site of the second batch is being analyzed
C16_Witness ==
    \E t \in Sites : BatchOf(t) >= 1 /\ sitePc[t] = "analyzing"

\* the sem_tasks inside `async with sem`
Holders == {s \in Sites : sitePc[s] \in {"fetch_home", "analyzing"}}

\* C17: the permits held never exceed max_concurrent, each is held by a task
\* that is inside process_site, no fetch or analysis runs outside such a task,
\* and when run_all has returned every permit is back, whether the sites
\* ended normally or with an error.
C17_PermitsHeldAndReleased ==
    /\ sem \in 0..MAX_CONCURRENT
    /\ MAX_CONCURRENT - sem = Cardinality(Holders)
    /\ \A s \in Sites : \A p \in 1..Len(pagePc[s]) :
          pagePc[s][p] \in {"fetching", "ai"} => s \in Holders
    /\ RunAllReturned => sem = MAX_CONCURRENT

\* run_all has returned after a site waited for a permit and a site ended
\* with an error
C17_Witness ==
    /\ RunAllReturned
    /\ Len(all_results) = 2
    /\ MAX_CONCURRENT = 1
    /\ BATCH_SIZE = 2
    /\ \E k \in 1..Len(all_results) : "error" \in DOMAIN all_results[k]
    /\ sem = MAX_CONCURRENT

\* C18: an attempt that ends with an HTTP error status is a failed attempt like
\* one that raised: fetch_text goes on to the next attempt while attempts
\* remain, and returns None when every attempt raised or ended with an error
\* status.
C18_HttpErrorIsFailedAttempt ==
    (call.fn = "fetch_text" /\ call.done) =>
        LET failed(i) == ~call.outcomes[i].ok \/ call.outcomes[i].http_error
        IN  /\ (\A i \in 1..(call.retry_count + 1) : failed(i)) => call.result.none
            /\ \A i \in 1..call.retry_count :
                  (\A j \in 1..i : failed(j)) => call.result.gets > i

\* C19: every page result of analyze_page has a boolean has_promotion and a
\* string promotion_summary, whatever the AI replied; hence every entry of a
\* site's promotion_summaries is a string.
C19_SummariesAreStrings ==
    \A s \in Sites :
        /\ \A p \in 1..Len(pageRes[s]) :
              pageRes[s][p] # Pending
                  => /\ pageRes[s][p].has_promotion \in BOOLEAN
                     /\ pageRes[s][p].promotion_summary.type = "str"
        /\ sitePc[s] = "done"
              => \A i \in 1..Len(siteRes[s].promotion_summaries) :
                    siteRes[s].promotion_summaries[i].type = "str"

\* text contains keyword k, letter case ignored
C20_ContainsIgnoringCase(k, text) == Contains(Lower(k), Lower(text))

\* C20: keyword matching ignores letter case in both places.  In the Link
\* Extractor an anchor of the homepage's netloc whose URL or text contains a
\* configured keyword, in any letter case, is kept (unless the scan stopped at
\* the cap); in the Analyzer's fallback a reply that contains a configured
\* keyword, in any letter case, gives has_promotion true.
C20_KeywordsMatchIgnoringCase ==
    /\ (/\ call.fn = "extract_candidate_links" /\ call.done
         /\ ~call.result.raised /\ ~NotHtml(call.html)
         /\ Len(call.result.value) < call.max_links)
            => \A i \in 1..Len(call.html.body.anchors) :
                  (/\ call.html.body.anchors[i].href.kind \notin {"empty", "bad"}
                   /\ C12_Link(i).netloc = call.site_url.netloc
                   /\ \E k \in KEYWORDS :
                         \/ C20_ContainsIgnoringCase(k, UrlString(C12_Link(i)))
                         \/ C20_ContainsIgnoringCase(k, call.html.body.anchors[i].text))
                      => \E n \in 1..Len(call.result.value) :
                            call.result.value[n] = C12_Link(i)
    /\ (call.fn = "parse_ai_response" /\ call.done /\ ~C13_Decodes)
            => ((\E k \in KEYWORDS :
                    C20_ContainsIgnoringCase(k, RawChars(call.resp_text)))
                  => call.result.has_promotion)

====
